---- MODULE Spec2Model ----
(***************************************************************************)
(* Model of the transaction feed of spendify-server:                       *)
(* GET /transactions/:accountId, handler getAccountTransactions.           *)
(*                                                                         *)
(* Text that the code inspects character by character (amount strings,     *)
(* titles, search queries) is a sequence of one-character strings.  Text   *)
(* that the code only compares for equality (ids, category labels) is a    *)
(* TLA+ string.  Money is an integer number of minor units (cents), as in  *)
(* currency.js (intValue); a currency object also records NaN.             *)
(***************************************************************************)
EXTENDS Integers, Sequences, FiniteSets, TLC

VARIABLES req, loads, tz, model

vars == <<req, loads, tz, model>>

(***************************************************************************)
(* Bounds of the model.                                                    *)
(***************************************************************************)
MaxReqs == 2
MaxTx == 3

(***************************************************************************)
(* The data of the model.  Every record is written with its fields in the  *)
(* order in which this section introduces them.                            *)
(***************************************************************************)
\* Optional values: a query parameter or a title that may be undefined.
Undefined == [some |-> FALSE, v |-> <<>>]
Some(x) == [some |-> TRUE, v |-> x]

\* A currency.js object: its intValue in cents, or NaN.
NaN == [nan |-> TRUE, intValue |-> 0]
Cents(n) == [nan |-> FALSE, intValue |-> n]

\* A booked transaction as the provider returns it.
RawTransaction(transactionId, bookingDate, amount, remittance) ==
  [transactionId |-> transactionId, bookingDate |-> bookingDate,
   amount |-> amount, remittance |-> remittance]

\* What a request asks: req.query, and whether its user is the mocked user.
Query(isMock, search, category, from, to) ==
  [isMock |-> isMock, search |-> search, category |-> category,
   from |-> from, to |-> to]

\* A request the process has not received yet.
IdleRequest ==
  [isMock |-> FALSE, search |-> Undefined, category |-> Undefined,
   from |-> Undefined, to |-> Undefined,
   pc |-> "idle", linked |-> FALSE,
   providerCalls |-> 0,
   transactions |-> <<>>, currentBalance |-> <<>>,
   mapped |-> <<>>, searched |-> <<>>, dated |-> <<>>,
   err |-> FALSE, status |-> 0, data |-> <<>>]

(***************************************************************************)
(* Characters and decimal digits.                                          *)
(***************************************************************************)
Digit == {"0", "1", "2", "3", "4", "5", "6", "7", "8", "9"}

DigitVal(c) ==
  CASE c = "0" -> 0 [] c = "1" -> 1 [] c = "2" -> 2 [] c = "3" -> 3
    [] c = "4" -> 4 [] c = "5" -> 5 [] c = "6" -> 6 [] c = "7" -> 7
    [] c = "8" -> 8 [] c = "9" -> 9

DigitChar(n) ==
  CASE n = 0 -> "0" [] n = 1 -> "1" [] n = 2 -> "2" [] n = 3 -> "3"
    [] n = 4 -> "4" [] n = 5 -> "5" [] n = 6 -> "6" [] n = 7 -> "7"
    [] n = 8 -> "8" [] n = 9 -> "9"

RECURSIVE DigitsVal(_)
\* The value of a sequence of decimal digits.
DigitsVal(s) ==
  IF s = <<>> THEN 0
  ELSE 10 * DigitsVal(SubSeq(s, 1, Len(s) - 1)) + DigitVal(s[Len(s)])

RECURSIVE NatDigits(_)
\* The decimal digits of a natural number (Number.prototype.toFixed's
\* integer part).
NatDigits(n) ==
  IF n < 10 THEN <<DigitChar(n)>>
  ELSE NatDigits(n \div 10) \o <<DigitChar(n % 10)>>

Abs(n) == IF n < 0 THEN -n ELSE n

\* The position of the first c in s, 0 when there is none.
IndexOf(s, c) ==
  IF \E i \in 1..Len(s) : s[i] = c
  THEN CHOOSE i \in 1..Len(s) : s[i] = c /\ \A j \in 1..(i - 1) : s[j] # c
  ELSE 0

(***************************************************************************)
(* currency.js, as configured by nordigenCurrency: precision 2 (the        *)
(* default), symbol '', separator '', decimal '.', errorOnInvalid false    *)
(* (the default).  A currency object is [nan, intValue].                   *)
(***************************************************************************)
\* parse: value.replace(regex, '') with regex /[^-\d.]/g.
StripNonNumeric(s) == SelectSeq(s, LAMBDA c : c \in Digit \cup {"-", "."})

\* JavaScript's Number(v) of a non-empty string over [-0-9.], then the
\* scaling v *= 100, v.toFixed(4) and Math.round(v) of parse.  The string
\* is a numeric literal iff, after an optional leading '-', it holds no
\* other '-', at most one '.', and a digit; anything else is NaN.  The
\* amounts of the model have at most three fraction digits, so the value is
\* taken in thousandths and Math.round rounds a half up.
ToRoundedCents(v) ==
  LET neg == v[1] = "-"
      body == IF neg THEN Tail(v) ELSE v
      dot == IndexOf(body, ".")
      whole == IF dot = 0 THEN body ELSE SubSeq(body, 1, dot - 1)
      frac == IF dot = 0 THEN <<>> ELSE SubSeq(body, dot + 1, Len(body))
      literal == /\ \A i \in 1..Len(whole) : whole[i] \in Digit
                 /\ \A i \in 1..Len(frac) : frac[i] \in Digit
                 /\ Len(whole) + Len(frac) > 0
      frac3 == SubSeq(frac \o <<"0", "0", "0">>, 1, 3)
      mag == 1000 * DigitsVal(whole) + DigitsVal(frac3)
      thousandths == IF neg THEN -mag ELSE mag
  IN  IF literal THEN Cents((thousandths + 5) \div 10) ELSE NaN

\* currency(value, NORDIGEN_CURRENCY) of a string: parse.  A string that
\* strips to '' takes the branch v = v || 0.
nordigenCurrency(value) ==
  LET v == StripNonNumeric(value)
  IN  IF v = <<>> THEN Cents(0) ELSE ToRoundedCents(v)

\* currency.subtract(number): intValue -= parse(number); NaN propagates.
Subtract(c, number) ==
  LET n == nordigenCurrency(number)
  IN  IF c.nan \/ n.nan THEN NaN ELSE Cents(c.intValue - n.intValue)

RECURSIVE Group(_, _)
\* dollars.replace(groups, '$1' + separator): the separator before every
\* group of three digits counted from the right.
Group(digits, separator) ==
  IF Len(digits) <= 3 THEN digits
  ELSE Group(SubSeq(digits, 1, Len(digits) - 3), separator)
         \o separator \o SubSeq(digits, Len(digits) - 2, Len(digits))

\* format(currency, settings): the pattern '!#', or the negative pattern
\* '-!#' when value >= 0 is false (which it is for NaN), with the symbol ''.
FormatWith(c, decimal, separator) ==
  IF c.nan THEN <<"-", "N", "a", "N">>
  ELSE LET a == Abs(c.intValue)
           dollars == NatDigits(a \div 100)
           cents == <<DigitChar((a % 100) \div 10), DigitChar(a % 10)>>
           sign == IF c.intValue < 0 THEN <<"-">> ELSE <<>>
       IN  sign \o Group(dollars, separator) \o decimal \o cents

\* currency.format() with the settings of nordigenCurrency.
Format(c) == FormatWith(c, <<".">>, <<>>)

\* currency.format(FINAL_CURRENCY_FORMAT): decimal ',', separator '.'.
FormatFinal(c) == FormatWith(c, <<",">>, <<".">>)

(***************************************************************************)
(* Dates.  An instant is a number of milliseconds since the epoch, a       *)
(* calendar date is a day number; tz is the offset of the server's local   *)
(* time from UTC, in hours.                                                *)
(***************************************************************************)
MsPerHour == 3600000
MsPerDay == 86400000

\* new Date('YYYY-MM-DD'): a date-only string is midnight UTC of that day.
NewDate(day) == day * MsPerDay

\* date-fns startOfDay: setHours(0, 0, 0, 0) in the local time zone.
startOfDay(t, zone) ==
  ((t + zone * MsPerHour) \div MsPerDay) * MsPerDay - zone * MsPerHour

\* date-fns endOfDay: setHours(23, 59, 59, 999) in the local time zone.
endOfDay(t, zone) == startOfDay(t, zone) + MsPerDay - 1

(***************************************************************************)
(* Map cumulative balance: transactions.map((transaction, index) => ...)   *)
(* with the closure variable currentBalance, a string, reassigned at every *)
(* index but the first.  Sequences are 1-based: weight = position - 1.     *)
(***************************************************************************)
\* currentBalance = nordigenCurrency(currentBalance)
\*                    .subtract(prevTransactionAmount).format()
\* A faulty step: the previous amount is added, not subtracted.
NextBalanceAdded(currentBalance, prevTransactionAmount) ==
  LET c == nordigenCurrency(currentBalance)
      n == nordigenCurrency(prevTransactionAmount)
  IN  Format(IF c.nan \/ n.nan THEN NaN ELSE Cents(c.intValue + n.intValue))

NextBalance(currentBalance, prevTransactionAmount) ==
  Format(Subtract(nordigenCurrency(currentBalance), prevTransactionAmount))

RECURSIVE CurrentBalanceAt(_, _, _)
\* The value of currentBalance when the callback returns for position i.
CurrentBalanceAt(transactions, currentBalance, i) ==
  IF i = 1 THEN currentBalance
  ELSE NextBalance(CurrentBalanceAt(transactions, currentBalance, i - 1),
                   transactions[i - 1].amount)

\* transaction.remittanceInformationUnstructuredArray[0]
TitleOf(transaction) ==
  IF transaction.remittance = <<>> THEN Undefined
  ELSE Some(transaction.remittance[1])

\* The object the map callback returns for position i.
MapTransaction(transactions, currentBalance, i) ==
  LET balance == CurrentBalanceAt(transactions, currentBalance, i)
  IN  [amount |-> FormatFinal(nordigenCurrency(transactions[i].amount)),
       id |-> transactions[i].transactionId,
       weight |-> i - 1,
       title |-> TitleOf(transactions[i]),
       date |-> NewDate(transactions[i].bookingDate),
       totalAmount |-> FormatFinal(nordigenCurrency(balance)),
       totalAmountInt |-> nordigenCurrency(balance)]

MapBalances(transactions, currentBalance) ==
  [i \in 1..Len(transactions) |->
     MapTransaction(transactions, currentBalance, i)]

(***************************************************************************)
(* fuzzysort.go(search, targets, {key: 'title', threshold: -400}).         *)
(* The titles of the model are one lower-case word, so the only word       *)
(* beginning of a target is its first character: the strict match of       *)
(* fuzzysort succeeds iff the search is a prefix of the target.            *)
(***************************************************************************)
threshold == -400

RECURSIVE MatchesSimple(_, _, _, _)
\* The leftmost positions of target at which the characters of search
\* occur in order, from search position si and target position ti on;
\* <<0>> when search is no subsequence of target.
MatchesSimple(search, target, si, ti) ==
  IF si > Len(search) THEN <<>>
  ELSE IF ti > Len(target) THEN <<0>>
  ELSE IF search[si] = target[ti]
       THEN LET rest == MatchesSimple(search, target, si + 1, ti + 1)
            IN  IF rest = <<0>> THEN <<0>> ELSE <<ti>> \o rest
       ELSE MatchesSimple(search, target, si, ti + 1)

IsPrefix(search, target) ==
  /\ Len(search) <= Len(target)
  /\ SubSeq(target, 1, Len(search)) = search

RECURSIVE GapPenalty(_, _)
\* score -= targetI for every matched position (0-based targetI) that does
\* not directly follow the matched position before it.
GapPenalty(matches, i) ==
  IF i > Len(matches) THEN 0
  ELSE LET last == IF i = 1 THEN 0 ELSE matches[i - 1]
       IN  (IF matches[i] = last + 1 THEN 0 ELSE matches[i] - 1)
             + GapPenalty(matches, i + 1)

\* The score of a target that matches: 0 is a perfect match, lower is worse.
Score(search, target) ==
  LET successStrict == IsPrefix(search, target)
      matchesBest == MatchesSimple(search, target, 1, 1)
      gaps == -GapPenalty(matchesBest, 1)
  IN  (IF successStrict THEN gaps ELSE gaps * 1000)
        - (Len(target) - Len(search))

\* A target is a result iff it is a non-empty string (if(!target) continue),
\* the search is a subsequence of it, and its score reaches the threshold.
IsResult(search, transaction) ==
  /\ transaction.title.some
  /\ transaction.title.v # <<>>
  /\ MatchesSimple(search, transaction.title.v, 1, 1) # <<0>>
  /\ Score(search, transaction.title.v) >= threshold

\* The sequences fuzzysort.go may return: the results, best score first.
\* They come out of a priority queue, so results of equal score come in
\* either order.
FuzzysortGo(search, targets) ==
  LET hits == {i \in 1..Len(targets) : IsResult(search, targets[i])}
      n == Cardinality(hits)
      orders == {o \in [1..n -> hits] :
                   /\ \A i, j \in 1..n : i # j => o[i] # o[j]
                   /\ \A i \in 1..(n - 1) :
                        Score(search, targets[o[i]].title.v)
                          >= Score(search, targets[o[i + 1]].title.v)}
  IN  {[i \in 1..n |-> targets[o[i]]] : o \in orders}

\* A faulty stage: fuzzysort.go is called without a search too, and returns
\* no result for it.
ApplyFuzzysortAlways(search, mappedTransactions) ==
  IF search.some /\ search.v # <<>>
  THEN FuzzysortGo(search.v, mappedTransactions)
  ELSE {<<>>}

\* Apply fuzzysort: search ? fuzzysort.go(...).map(s => s.obj) : mapped.
\* An empty search string is falsy.
ApplyFuzzysort(search, mappedTransactions) ==
  IF search.some /\ search.v # <<>>
  THEN FuzzysortGo(search.v, mappedTransactions)
  ELSE {mappedTransactions}

(***************************************************************************)
(* Apply interval filtering.                                               *)
(***************************************************************************)
\* A faulty test: both bounds excluded.
InIntervalExclusive(transaction, from, to, zone) ==
  LET transactionDate == transaction.date
      fromDate == startOfDay(NewDate(from), zone)
      endDate == endOfDay(NewDate(to), zone)
  IN  transactionDate > fromDate /\ transactionDate < endDate

InInterval(transaction, from, to, zone) ==
  LET transactionDate == transaction.date
      fromDate == startOfDay(NewDate(from), zone)
      endDate == endOfDay(NewDate(to), zone)
  IN  transactionDate >= fromDate /\ transactionDate <= endDate

\* A faulty stage: one bound alone filters too.
ApplyIntervalOneSided(from, to, mappedTransactions, zone) ==
  SelectSeq(mappedTransactions,
            LAMBDA t :
              /\ from.some => t.date >= startOfDay(NewDate(from.v), zone)
              /\ to.some => t.date <= endOfDay(NewDate(to.v), zone))

\* A faulty stage: after filtering, the balances are those of the positions
\* in the filtered list.
ApplyIntervalByPosition(from, to, mappedTransactions, zone) ==
  LET kept == IF from.some /\ to.some
              THEN SelectSeq(mappedTransactions,
                             LAMBDA t : InInterval(t, from.v, to.v, zone))
              ELSE mappedTransactions
  IN  [i \in 1..Len(kept) |->
         [kept[i] EXCEPT
            !.totalAmountInt = mappedTransactions[i].totalAmountInt]]

ApplyInterval(from, to, mappedTransactions, zone) ==
  IF from.some /\ to.some
  THEN SelectSeq(mappedTransactions,
                 LAMBDA t : InInterval(t, from.v, to.v, zone))
  ELSE mappedTransactions

(***************************************************************************)
(* Apply categorization: the callback of BayesClassifier.load.             *)
(***************************************************************************)
\* classifier.getClassifications(transaction.title)[0].label, for a loaded
\* classifier and a string title.
ClassifiedCategory(classifier, transaction) == classifier[transaction.title.v]

\* The loop body throws a TypeError when the load failed (classifier is
\* undefined) or the title is undefined (textToFeatures reads
\* observation.indexOf).
LoopThrows(err, mappedTransactions) ==
  \E i \in 1..Len(mappedTransactions) :
    err \/ ~mappedTransactions[i].title.some

\* String.prototype.toLowerCase on the labels of the model.
LowerCase(label) ==
  CASE label = "Food" -> "food"
    [] label = "Transport" -> "transport"
    [] OTHER -> label

\* A faulty test: the category is compared ignoring case.
CategoryKeptIgnoringCase(category, classifiedCategory) ==
  \/ ~category.some
  \/ category.v = ""
  \/ LowerCase(category.v) = LowerCase(classifiedCategory)

\* !category || category === classifiedCategory; '' is falsy.
CategoryKept(category, classifiedCategory) ==
  \/ ~category.some
  \/ category.v = ""
  \/ category.v = classifiedCategory

Categorize(classifier, category, mappedTransactions) ==
  LET labelled == [i \in 1..Len(mappedTransactions) |->
                     [amount |-> mappedTransactions[i].amount,
                      category |-> ClassifiedCategory(
                                     classifier, mappedTransactions[i]),
                      id |-> mappedTransactions[i].id,
                      weight |-> mappedTransactions[i].weight,
                      title |-> mappedTransactions[i].title,
                      date |-> mappedTransactions[i].date,
                      totalAmount |-> mappedTransactions[i].totalAmount,
                      totalAmountInt |->
                        mappedTransactions[i].totalAmountInt]]
  IN  SelectSeq(labelled, LAMBDA t : CategoryKept(category, t.category))

RECURSIVE Insert(_, _)
\* t put into a list sorted by weight, after the records of equal weight.
Insert(sorted, t) ==
  IF sorted = <<>> THEN <<t>>
  ELSE IF t.weight < sorted[1].weight THEN <<t>> \o sorted
  ELSE <<sorted[1]>> \o Insert(Tail(sorted), t)

\* A faulty response: the final sort is left out.
SortByWeightSkipped(list) == list

RECURSIVE SortByWeight(_)
\* categorizedTransactions.sort((prev, next) => prev.weight - next.weight);
\* the weights of a list are distinct.
SortByWeight(list) ==
  IF list = <<>> THEN <<>>
  ELSE Insert(SortByWeight(SubSeq(list, 1, Len(list) - 1)), list[Len(list)])

(***************************************************************************)
(* The process: the requests it handles, each at some await or callback of *)
(* getAccountTransactions, and the number of BayesClassifier.load calls.   *)
(***************************************************************************)
Requests == 1..MaxReqs

\* const mockedCurrentBalance = '20000.00'
mockedCurrentBalance == <<"2", "0", "0", "0", "0", ".", "0", "0">>

\* The state after construction: no request received, no model loaded.
InitOf(Zones, Models) ==
  /\ req = [r \in Requests |-> IdleRequest]
  /\ loads = 0
  /\ tz \in Zones
  /\ model \in Models

\* A validated request arrives: validationResult(req).throw() passes, and
\* the handler reads req.params and req.query, then awaits the account.
Receive(r, Queries) ==
  /\ req[r].pc = "idle"
  /\ \E q \in Queries :
       req' = [req EXCEPT ![r] =
                 [@ EXCEPT !.pc = "lookup", !.isMock = q.isMock,
                           !.search = q.search, !.category = q.category,
                           !.from = q.from, !.to = q.to]]
  /\ UNCHANGED <<loads, tz, model>>

\* A faulty step: the account is not tested, and the handler goes on.
LookupUnchecked(r) ==
  /\ req[r].pc = "lookup"
  /\ \E account \in BOOLEAN :
       req' = [req EXCEPT ![r] =
                 [@ EXCEPT !.pc = "transactions", !.linked = account]]
  /\ UNCHANGED <<loads, tz, model>>

\* getLinkedAccount resolves: without a linked account the handler throws
\* ServerError(403), which express-async-errors hands to the error handler.
Lookup(r) ==
  /\ req[r].pc = "lookup"
  /\ \E account \in BOOLEAN :
       req' = [req EXCEPT ![r] =
                 IF account
                 THEN [@ EXCEPT !.pc = "transactions", !.linked = TRUE]
                 ELSE [@ EXCEPT !.pc = "error", !.status = 403]]
  /\ UNCHANGED <<loads, tz, model>>

\* The booked transactions: fetched from the provider, or the mocked list
\* for the mocked user.
FetchTransactions(r, Booked) ==
  /\ req[r].pc = "transactions"
  /\ \E booked \in Booked :
       req' = [req EXCEPT ![r] =
                 [@ EXCEPT !.pc = "balances", !.transactions = booked,
                           !.providerCalls =
                             IF req[r].isMock THEN @ ELSE @ + 1]]
  /\ UNCHANGED <<loads, tz, model>>

\* The balances resolve (or are the mocked object), and the handler runs
\* without another await up to its call of BayesClassifier.load: balances,
\* fuzzysort and the interval filter.
FetchBalances(r, Balances) ==
  /\ req[r].pc = "balances"
  /\ \E amount \in (IF req[r].isMock THEN {mockedCurrentBalance} ELSE Balances) :
       LET mapped == MapBalances(req[r].transactions, amount)
       IN  \E searched \in ApplyFuzzysort(req[r].search, mapped) :
             req' = [req EXCEPT ![r] =
                       [@ EXCEPT !.pc = "load", !.currentBalance = amount,
                                 !.providerCalls =
                                   IF req[r].isMock THEN @ ELSE @ + 1,
                                 !.mapped = mapped,
                                 !.searched = searched,
                                 !.dated = ApplyInterval(req[r].from,
                                             req[r].to, searched, tz)]]
  /\ loads' = loads + 1
  /\ UNCHANGED <<tz, model>>

\* The callback of BayesClassifier.load runs, with err set when the model
\* could not be loaded (the callback never reads err).  A TypeError thrown
\* in it is outside the handler's promise: no handler answers the request
\* (pc "uncaught").  Otherwise res.json sends the
\* categorized transactions sorted by weight.
LoadCallback(r) ==
  /\ req[r].pc = "load"
  /\ \E err \in BOOLEAN :
       req' = [req EXCEPT ![r] =
                 IF LoopThrows(err, req[r].dated)
                 THEN [@ EXCEPT !.pc = "uncaught", !.err = err]
                 ELSE [@ EXCEPT !.pc = "done", !.err = err, !.status = 200,
                                !.data = SortByWeight(
                                  Categorize(model, req[r].category,
                                             req[r].dated))]]
  /\ UNCHANGED <<loads, tz, model>>

(***************************************************************************)
(* The inputs the specifications draw from.                                *)
(***************************************************************************)
Ta == <<"a">>
Tab == <<"a", "b">>
Tba == <<"b", "a">>

Titles == {<<>>, Ta, Tab, Tba}
Labels == {"Food", "Transport"}

\* The trained models the specifications draw from: either label for the
\* title Ta.
Models ==
  {m \in [Titles -> Labels] :
     m[<<>>] = "Food" /\ m[Tab] = "Food" /\ m[Tba] = "Transport"}

\* One trained model, for the specifications that do not vary it.
FoodModel == [t \in Titles |-> IF t = Tba THEN "Transport" ELSE "Food"]

TransactionIds == <<"t0", "t1", "t2", "t3", "t4", "t5">>

\* The provider's lists of at most MaxTx booked transactions whose booking
\* date, amount and remittance lines are drawn from Pool.
BookedOver(Pool) ==
  LET lists == UNION {[1..n -> Pool] : n \in 0..MaxTx}
  IN  {[i \in 1..Len(l) |->
          RawTransaction(TransactionIds[i], l[i].bookingDate, l[i].amount,
                         l[i].remittance)] : l \in lists}

NoFilter == Query(FALSE, Undefined, Undefined, Undefined, Undefined)

\* Amount strings: the spec's example, a fraction, a sub-cent amount and
\* two malformed ones.
Amount100 == <<"1", "0", "0">>
AmountMinus30 == <<"-", "3", "0">>
Amount10 == <<"1", "0">>
AmountFraction == <<"1", "2", ".", "5">>
AmountSubCent == <<"0", ".", "0", "0", "5">>
AmountLetters == <<"a", "b", "c">>
AmountTwoSigns == <<"1", "-", "2">>
Balance500 == <<"5", "0", "0">>
BalanceNegative == <<"-", "1", "2", ".", "3", "4">>

(***************************************************************************)
(* SpecBalance: one request, no filter, over lists of amounts.             *)
(***************************************************************************)
BalancePool ==
  {[bookingDate |-> 1, amount |-> a, remittance |-> <<Ta>>] :
     a \in {Amount100, AmountMinus30, AmountFraction, AmountSubCent,
            AmountLetters, AmountTwoSigns}}

BalanceInit == InitOf({0}, {FoodModel})

BalanceNext ==
  \/ Receive(1, {NoFilter})
  \/ Lookup(1)
  \/ FetchTransactions(1, BookedOver(BalancePool))
  \/ FetchBalances(1, {Balance500, BalanceNegative})
  \/ LoadCallback(1)

SpecBalance == BalanceInit /\ [][BalanceNext]_vars

(***************************************************************************)
(* SpecFilters: one request, every combination of search, category and     *)
(* date range, over lists that differ in title, date and amount.           *)
(***************************************************************************)
FilterPool ==
  {[bookingDate |-> 1, amount |-> Amount100, remittance |-> <<Tab>>],
   [bookingDate |-> 2, amount |-> AmountMinus30, remittance |-> <<Ta>>],
   [bookingDate |-> 3, amount |-> Amount10, remittance |-> <<Tba>>],
   [bookingDate |-> 2, amount |-> Amount100, remittance |-> <<>>]}

FilterQueries ==
  [isMock : {FALSE},
   search : {Undefined, Some(<<>>), Some(Ta)},
   category : {Undefined, Some(""), Some("Food"), Some("food")},
   from : {Undefined, Some(2)},
   to : {Undefined, Some(2)}]

FiltersInit == InitOf({0}, Models)

FiltersNext ==
  \/ Receive(1, FilterQueries)
  \/ Lookup(1)
  \/ FetchTransactions(1, BookedOver(FilterPool))
  \/ FetchBalances(1, {Balance500})
  \/ LoadCallback(1)

SpecFilters == FiltersInit /\ [][FiltersNext]_vars

(***************************************************************************)
(* SpecDates: one request, every date range in every time zone.            *)
(***************************************************************************)
Days == 1..3
Zones == {-11, -5, 0, 2, 14}

DatePool ==
  {[bookingDate |-> d, amount |-> Amount100, remittance |-> <<Ta>>] :
     d \in Days}

DateQueries ==
  [isMock : {FALSE},
   search : {Undefined},
   category : {Undefined},
   from : {Undefined} \cup {Some(d) : d \in Days},
   to : {Undefined} \cup {Some(d) : d \in Days}]

DatesInit == InitOf(Zones, {FoodModel})

DatesNext ==
  \/ Receive(1, DateQueries)
  \/ Lookup(1)
  \/ FetchTransactions(1, BookedOver(DatePool))
  \/ FetchBalances(1, {Balance500})
  \/ LoadCallback(1)

SpecDates == DatesInit /\ [][DatesNext]_vars

(***************************************************************************)
(* Spec: the process handling up to MaxReqs requests, interleaved at       *)
(* their awaits.                                                           *)
(***************************************************************************)
ProcessPool ==
  {[bookingDate |-> 1, amount |-> Amount100, remittance |-> <<Ta>>]}

ProcessBooked == {b \in BookedOver(ProcessPool) : Len(b) <= 1}

ProcessQueries ==
  {NoFilter, [NoFilter EXCEPT !.isMock = TRUE],
   [NoFilter EXCEPT !.category = Some("Transport")]}

Init == InitOf({0}, {FoodModel})

Next ==
  \E r \in Requests :
    \/ Receive(r, ProcessQueries)
    \/ Lookup(r)
    \/ FetchTransactions(r, ProcessBooked)
    \/ FetchBalances(r, {Balance500})
    \/ LoadCallback(r)

Spec == Init /\ [][Next]_vars

(***************************************************************************)
(* What the properties refer to.                                           *)
(***************************************************************************)
\* The request has run the balance, search and interval stages.
Enriched(r) == req[r].pc \in {"load", "done", "uncaught"}

\* The request was answered with res.json({success: true, data}).
Answered(r) == req[r].pc = "done"

\* A search query is given: the parameter is present and not empty.
Given(search) == search.some /\ search.v # <<>>

\* A category filter is given: the parameter is present and not empty.
CategoryGiven(category) == category.some /\ category.v # ""

\* A decimal string as the provider writes amounts: an optional '-',
\* digits, and optionally a '.' followed by digits.
IsDecimalString(s) ==
  LET body == IF s # <<>> /\ s[1] = "-" THEN Tail(s) ELSE s
      dot == IndexOf(body, ".")
      whole == IF dot = 0 THEN body ELSE SubSeq(body, 1, dot - 1)
      frac == IF dot = 0 THEN <<>> ELSE SubSeq(body, dot + 1, Len(body))
  IN  /\ whole # <<>>
      /\ \A i \in 1..Len(whole) : whole[i] \in Digit
      /\ dot # 0 => frac # <<>>
      /\ \A i \in 1..Len(frac) : frac[i] \in Digit

\* The number of fraction digits of a decimal string.
FractionDigits(s) ==
  IF IndexOf(s, ".") = 0 THEN 0 ELSE Len(s) - IndexOf(s, ".")

\* A decimal string in minor units: at most two fraction digits.
InMinorUnits(s) == IsDecimalString(s) /\ FractionDigits(s) <= 2

\* The exact value, in cents, of a decimal string in minor units.
ExactCents(s) ==
  LET neg == s[1] = "-"
      body == IF neg THEN Tail(s) ELSE s
      dot == IndexOf(body, ".")
      whole == IF dot = 0 THEN body ELSE SubSeq(body, 1, dot - 1)
      frac == IF dot = 0 THEN <<>> ELSE SubSeq(body, dot + 1, Len(body))
      tens == IF Len(frac) >= 1 THEN DigitVal(frac[1]) ELSE 0
      ones == IF Len(frac) >= 2 THEN DigitVal(frac[2]) ELSE 0
      mag == 100 * DigitsVal(whole) + 10 * tens + ones
  IN  IF neg THEN -mag ELSE mag

\* Every amount of the request, and its balance, is in minor units.
AmountsInMinorUnits(r) ==
  /\ InMinorUnits(req[r].currentBalance)
  /\ \A i \in 1..Len(req[r].transactions) :
       InMinorUnits(req[r].transactions[i].amount)

C10_MalformedAmountFails ==
  \A r \in Requests :
    (\E i \in 1..Len(req[r].transactions) :
       ~IsDecimalString(req[r].transactions[i].amount))
      => ~Answered(r)

RECURSIVE AmountsBefore(_, _)
\* The exact sum, in cents, of the amounts of the transactions before
\* position i.
AmountsBefore(transactions, i) ==
  IF i = 1 THEN 0
  ELSE AmountsBefore(transactions, i - 1)
         + ExactCents(transactions[i - 1].amount)

\* The balance of position i reconstructed over the complete list.
CompleteListBalance(r, i) ==
  Cents(ExactCents(req[r].currentBalance)
          - AmountsBefore(req[r].transactions, i))

\* C2: whatever search, date range and category were asked, a returned
\* record carries the id and amount of the transaction at its weight and
\* the running balance reconstructed over the complete, unfiltered list
\* up to that weight: the one it carries when no filter is supplied.
C2_BalancesOverCompleteList ==
  \A r \in Requests :
    Answered(r) =>
      \A k \in 1..Len(req[r].data) :
        LET d == req[r].data[k]
            i == d.weight + 1
        IN  /\ i \in 1..Len(req[r].transactions)
            /\ d.id = req[r].transactions[i].transactionId
            /\ d.amount =
                 FormatFinal(Cents(ExactCents(req[r].transactions[i].amount)))
            /\ d.totalAmountInt = CompleteListBalance(r, i)
            /\ d.totalAmount = FormatFinal(CompleteListBalance(r, i))

\* A date range dropped the newest transaction, and the first record
\* returned carries a balance other than the current balance.
C2_Witness ==
  /\ Answered(1)
  /\ req[1].from.some /\ req[1].to.some
  /\ Len(req[1].data) >= 1
  /\ req[1].data[1].weight = 1
  /\ req[1].data[1].totalAmountInt # req[1].mapped[1].totalAmountInt

\* C3: the returned sequence is strictly ascending in weight.
C3_AscendingWeight ==
  \A r \in Requests :
    Answered(r) =>
      \A i, j \in 1..Len(req[r].data) :
        i < j => req[r].data[i].weight < req[r].data[j].weight

\* The search put a later transaction first, and both were returned.
C3_Witness ==
  /\ Answered(1)
  /\ Given(req[1].search)
  /\ Len(req[1].searched) >= 2
  /\ req[1].searched[1].weight > req[1].searched[2].weight
  /\ Len(req[1].data) = Len(req[1].searched)

\* C4: with only from, only to, or neither, the date stage returns its
\* input: the same records in the same order.
C4_PartialRangeIsNoFilter ==
  \A r \in Requests :
    (Enriched(r) /\ ~(req[r].from.some /\ req[r].to.some)) =>
      req[r].dated = req[r].searched

\* Only from is given, and a transaction booked before it is kept.
C4_Witness ==
  /\ Enriched(1)
  /\ req[1].from.some /\ ~req[1].to.some
  /\ \E i \in 1..Len(req[1].dated) :
       req[1].transactions[req[1].dated[i].weight + 1].bookingDate
         < req[1].from.v

\* The calendar day a record was booked on.
BookingDay(r, t) == req[r].transactions[t.weight + 1].bookingDate

\* C5: with both bounds, in every time zone, the date stage keeps exactly
\* the records booked on a day from the day of from to the day of to, both
\* included, in the order they came in.
C5_InclusiveDayRange ==
  \A r \in Requests :
    (Enriched(r) /\ req[r].from.some /\ req[r].to.some) =>
      req[r].dated =
        SelectSeq(req[r].searched,
                  LAMBDA t : /\ req[r].from.v <= BookingDay(r, t)
                             /\ BookingDay(r, t) <= req[r].to.v)

\* Away from UTC, a range kept the records booked on its first and on its
\* last day and dropped another.
C5_Witness ==
  /\ Enriched(1)
  /\ tz # 0
  /\ req[1].from.some /\ req[1].to.some
  /\ req[1].from.v < req[1].to.v
  /\ \E i \in 1..Len(req[1].dated) :
       BookingDay(1, req[1].dated[i]) = req[1].from.v
  /\ \E i \in 1..Len(req[1].dated) :
       BookingDay(1, req[1].dated[i]) = req[1].to.v
  /\ Len(req[1].dated) < Len(req[1].searched)

\* The weights of the records of a list.
Weights(list) == {list[i].weight : i \in 1..Len(list)}

\* C6: every returned record carries the label the classifier assigns to
\* its title; with a (non-empty) category filter the returned records are
\* exactly those that reached the stage and whose label equals the
\* category, character for character; without one they are all that
\* reached the stage.
C6_CategoryExact ==
  \A r \in Requests :
    Answered(r) =>
      /\ \A k \in 1..Len(req[r].data) :
           /\ req[r].data[k].title.some
           /\ req[r].data[k].category = model[req[r].data[k].title.v]
      /\ Len(req[r].data) = Cardinality(Weights(req[r].data))
      /\ Weights(req[r].data) =
           {req[r].dated[i].weight : i \in
              {j \in 1..Len(req[r].dated) :
                 CategoryGiven(req[r].category) =>
                   model[req[r].dated[j].title.v] = req[r].category.v}}

\* A category filter kept some records and dropped others.
C6_Witness ==
  /\ Answered(1)
  /\ req[1].category = Some("Food")
  /\ Len(req[1].data) >= 1
  /\ Len(req[1].data) < Len(req[1].dated)

\* C7: without search, date range and category, the response holds one
\* record per transaction, and the record at position i has weight i and
\* the id of transaction i.
C7_NoFilterRoundTrip ==
  \A r \in Requests :
    (/\ Answered(r)
     /\ ~Given(req[r].search)
     /\ ~(req[r].from.some /\ req[r].to.some)
     /\ ~CategoryGiven(req[r].category)) =>
      /\ Len(req[r].data) = Len(req[r].transactions)
      /\ \A i \in 1..Len(req[r].data) :
           /\ req[r].data[i].weight = i - 1
           /\ req[r].data[i].id = req[r].transactions[i].transactionId

\* An unfiltered request over a list of MaxTx transactions is answered.
C7_Witness ==
  /\ Answered(1)
  /\ req[1].search = Undefined /\ req[1].category = Undefined
  /\ req[1].from = Undefined /\ req[1].to = Undefined
  /\ Len(req[1].transactions) = MaxTx
  /\ Len(req[1].data) = MaxTx

\* C8: over any interleaving of requests, the number of model loads is at
\* most one.
C8_LoadedAtMostOnce == loads <= 1

\* C9: a request whose model load failed ends in an error outcome: it is
\* not answered with a success response, and it does not end without any
\* response.
C9_ModelUnavailableSurfaced ==
  \A r \in Requests : req[r].err => req[r].pc = "error"

\* C11: a transaction whose remittance array is empty gets the empty
\* string as its title, and the request does not end in an exception
\* because of it: with the model loaded, the callback never throws.
C11_EmptyRemittanceHandled ==
  \A r \in Requests :
    Enriched(r) =>
      /\ \A i \in 1..Len(req[r].transactions) :
           req[r].transactions[i].remittance = <<>> =>
             req[r].mapped[i].title = Some(<<>>)
      /\ req[r].pc = "uncaught" => req[r].err

\* The lookup of the request's account has resolved.
LookedUp(r) == req[r].pc \notin {"idle", "lookup"}

\* C12: a request whose lookup found no linked account has failed with
\* status 403, has made no provider call and has sent no data; so every
\* provider call and every response with data is for a linked account.
C12_OnlyLinkedAccounts ==
  \A r \in Requests :
    /\ (LookedUp(r) /\ ~req[r].linked) =>
         /\ req[r].pc = "error"
         /\ req[r].status = 403
         /\ req[r].providerCalls = 0
         /\ req[r].data = <<>>
    /\ (req[r].providerCalls > 0 \/ Answered(r)) => req[r].linked

\* One request was refused for want of a linked account while another, for
\* a linked account, fetched from the provider and was answered with data.
C12_Witness ==
  /\ req[1].pc = "error"
  /\ ~req[1].linked
  /\ req[1].status = 403
  /\ req[1].providerCalls = 0
  /\ Answered(2)
  /\ req[2].providerCalls = 2
  /\ Len(req[2].data) = 1

====
